---- MODULE Spec2Model ----
(***************************************************************************)
(* Model of cloud-config-server/cache/cache.go: a Cache holding an         *)
(* in-memory copy (content) and an on-disk copy (filename) of a remote     *)
(* file, refreshed by one background goroutine on a timer tick or on a     *)
(* request sent by Get, and stopped by Close.                              *)
(*                                                                         *)
(* Byte strings are sequences of small numbers; nil is the empty sequence. *)
(* A Go slice value is a multi-word header; the model keeps the two words  *)
(* that decide what a reader sees, ptr (the backing array, identified by   *)
(* its bytes) and len.  c.content is read by Get and written by the        *)
(* goroutine without synchronisation, so both the store and the load are   *)
(* modelled word by word.  The store writes its words in either order; the *)
(* load reads ptr, then len: with the store's order free, the other load   *)
(* order yields no header that this one does not.                          *)
(*                                                                         *)
(* A panic terminates the process: once any goroutine has panicked no      *)
(* action is enabled.                                                      *)
(***************************************************************************)
EXTENDS Naturals, Sequences, FiniteSets

\* ------------------------------------------------------------------ bounds
MaxBody == 2        \* number of distinct remote bodies
NGet == 2           \* number of goroutines calling Get
NClose == 2         \* number of goroutines calling Close

\* --------------------------------------------------------------- constants
UpdateCap2 == 1 + 1 \* a request channel that queues two requests
UpdateCap == 1      \* make(chan int, 1)
StatusOK == 200     \* resp.StatusCode != 200

\* ------------------------------------------------------------------ values
nil == <<>>
Body(k) == [i \in 1..k |-> k]
Bodies == {Body(k) : k \in 1..MaxBody}
\* The file c.filename: whether it can be read, and its bytes.
File(d) == [readable |-> TRUE, data |-> d]
Missing == [readable |-> FALSE, data |-> nil]
NoErr == "nil"                   \* the nil error
Getters == 1..NGet
Closers == 1..NClose
Words == {"ptr", "len"}

\* What client.Get and ioutil.ReadAll can produce for one request.
\* err: transport error of client.Get (a timeout is one of them);
\* status: the response's status code; readErr: error of ReadAll.
NoResp == [err |-> NoErr, status |-> 0, readErr |-> NoErr, body |-> nil]
Responses ==
    {[err |-> e, status |-> 0, readErr |-> NoErr, body |-> nil] :
        e \in {"transport", "timeout"}}
    \cup {[err |-> NoErr, status |-> s, readErr |-> NoErr, body |-> nil] :
        s \in {404}}
    \cup {[err |-> NoErr, status |-> StatusOK, readErr |-> "read", body |-> nil]}
    \cup {[err |-> NoErr, status |-> StatusOK, readErr |-> NoErr, body |-> b] :
        b \in Bodies}

\* The slice header of a byte string.
Slice(b) == [ptr |-> b, len |-> Len(b)]

VARIABLES
    npc,           \* New: "new", "ready" (returned c) or "panic"
    content,       \* c.content, a slice header
    file,          \* the file c.filename
    resp,          \* the response of the latest client.Get
    bgpc,          \* position of the background goroutine
    stw,           \* words of c.content the goroutine's assignment has yet to store
    update,        \* buffer of channel c.update
    updateClosed,  \* close(c.update) was executed
    closeClosed,   \* close(c.close) was executed
    gpc,           \* position of each Get caller
    gb,            \* Get's local b, a slice header
    raced,         \* the load of b, half done, overlaps a store to c.content
    clpc,          \* position of each Close caller
    fetchAfterClose, \* fetch attempts started while a Close was waiting
    burst,         \* "off", or "on" since an observed burst began
    burstWakes,    \* wake-ups of the goroutine since the burst began
    burstReq,      \* of these, wake-ups that consumed a refresh request
    burstGets,     \* selects executed by Get since the burst began
    burstLate      \* a Get reached its select after the goroutine's second
                   \* wake-up since the burst began

vars == <<npc, content, file, resp, bgpc, stw, update, updateClosed,
          closeClosed, gpc, gb, raced, clpc, fetchAfterClose,
          burst, burstWakes, burstReq, burstGets, burstLate>>

burstVars == <<burst, burstWakes, burstReq, burstGets, burstLate>>

\* ------------------------------------------------------------------ httpGet
\* Returns <<body, err>>.
httpGet(r) ==
    IF r.err # NoErr \/ r.status # StatusOK
    THEN <<nil, r.err>>
    ELSE IF r.readErr # NoErr
         THEN <<nil, r.readErr>>
         ELSE <<r.body, NoErr>>

\* ioutil.ReadFile: <<bytes, err>>.
ReadFile(f) == IF f.readable THEN <<f.data, NoErr>> ELSE <<nil, "enoent">>

\* load: <<bytes returned, whether log.Panicf was reached>>.
load(r, f) ==
    LET g == httpGet(r) IN
    IF g[2] # NoErr
    THEN IF ReadFile(f)[2] # NoErr THEN <<nil, TRUE>>
         ELSE <<ReadFile(f)[1], FALSE>>
    ELSE <<g[1], FALSE>>

\* ioutil.WriteFile(name, b, 0644): the possible contents of the file
\* afterwards.  Success leaves b; a failed open leaves the file as it was;
\* a failure after the truncating open leaves a proper prefix of b.
WriteFile(f, d) ==
    {File(d), f} \cup {File(SubSeq(d, 1, k)) : k \in 0..(Len(d) - 1)}

Crashed ==
    \/ npc = "panic"
    \/ \E g \in Getters : gpc[g] = "panicked"
    \/ \E c \in Closers : clpc[c] = "panicked"

Live == npc = "ready" /\ ~Crashed

\* --------------------------------------------------------------------- Init
Init ==
    /\ npc = "new"
    /\ content = Slice(nil)
    /\ file \in {Missing} \cup {File(d) : d \in Bodies}
    /\ resp = NoResp
    /\ bgpc = "none"
    /\ stw = {}
    /\ update = <<>>
    /\ updateClosed = FALSE
    /\ closeClosed = FALSE
    /\ gpc = [g \in Getters |-> "idle"]
    /\ gb = [g \in Getters |-> Slice(nil)]
    /\ raced = [g \in Getters |-> FALSE]
    /\ clpc = [c \in Closers |-> "idle"]
    /\ fetchAfterClose = 0
    /\ burst = "off"
    /\ burstWakes = 0
    /\ burstReq = 0
    /\ burstGets = 0
    /\ burstLate = FALSE

\* ---------------------------------------------------------------------- New
New ==
    /\ npc = "new"
    /\ \E r \in Responses :
        /\ resp' = r
        /\ IF load(r, file)[2]
           THEN /\ npc' = "panic"
                /\ UNCHANGED <<content, bgpc>>
           ELSE /\ npc' = "ready"
                /\ content' = Slice(load(r, file)[1])
                /\ bgpc' = "wait"
    /\ UNCHANGED <<file, stw, update, updateClosed, closeClosed, gpc, gb,
                   raced, clpc, fetchAfterClose, burstVars>>

\* ------------------------------------------------- the background goroutine
\* b, e := httpGet(c.url, loadTimeout)
b == httpGet(resp)[1]
e == httpGet(resp)[2]

CloseWaiting == \E c \in Closers : clpc[c] = "sending"

Inc(n, cap) == IF n < cap THEN n + 1 ELSE n

\* What every wake-up of the first select does besides its channel.
Woken(byRequest) ==
    /\ bgpc' = "fetch"
    /\ resp' = NoResp
    /\ fetchAfterClose' = IF CloseWaiting THEN Inc(fetchAfterClose, 2)
                          ELSE fetchAfterClose
    /\ IF burst = "on" /\ ~burstLate
       THEN /\ burstWakes' = Inc(burstWakes, 2)
            /\ burstReq' = IF byRequest THEN Inc(burstReq, 3) ELSE burstReq
       ELSE UNCHANGED <<burstWakes, burstReq>>
    /\ UNCHANGED <<npc, content, file, stw, updateClosed, closeClosed, gpc,
                   gb, raced, clpc, burst, burstGets, burstLate>>

\* case <-tic:
WakeTick ==
    /\ Live
    /\ bgpc = "wait"
    /\ Woken(FALSE)
    /\ UNCHANGED update

\* case <-c.update:
WakeUpdate ==
    /\ Live
    /\ bgpc = "wait"
    /\ update # <<>>
    /\ update' = Tail(update)
    /\ Woken(TRUE)

\* httpGet returns; the branch on e == nil.
FetchDone ==
    /\ Live
    /\ bgpc = "fetch"
    /\ \E r \in Responses :
        /\ resp' = r
        /\ IF httpGet(r)[2] = NoErr
           THEN bgpc' = "store" /\ stw' = Words
           ELSE bgpc' = "check" /\ stw' = stw
    /\ UNCHANGED <<npc, content, file, update, updateClosed, closeClosed,
                   gpc, gb, raced, clpc, fetchAfterClose, burstVars>>

\* c.content = b, one word of the header at a time.
StoreWord(w) ==
    /\ Live
    /\ bgpc = "store"
    /\ w \in stw
    /\ content' = [content EXCEPT ![w] = Slice(b)[w]]
    /\ stw' = stw \ {w}
    /\ bgpc' = IF stw' = {} THEN "write" ELSE "store"
    /\ raced' = [g \in Getters |->
                    IF gpc[g] = "loaded_ptr" THEN TRUE ELSE raced[g]]
    /\ UNCHANGED <<npc, file, resp, update, updateClosed, closeClosed, gpc,
                   gb, clpc, fetchAfterClose, burstVars>>

\* Write with a failed write ending the goroutine.
WriteFatal ==
    /\ Live
    /\ bgpc = "write"
    /\ file' \in WriteFile(file, b)
    /\ bgpc' = IF file' = File(b) THEN "check" ELSE "done"
    /\ UNCHANGED <<npc, content, resp, stw, update, updateClosed,
                   closeClosed, gpc, gb, raced, clpc, fetchAfterClose,
                   burstVars>>

\* ioutil.WriteFile(c.filename, b, 0644); a failure is only logged.
Write ==
    /\ Live
    /\ bgpc = "write"
    /\ file' \in WriteFile(file, b)
    /\ bgpc' = "check"
    /\ UNCHANGED <<npc, content, resp, stw, update, updateClosed,
                   closeClosed, gpc, gb, raced, clpc, fetchAfterClose,
                   burstVars>>

\* CheckClose without the return: the loop goes on after the signal.
CheckCloseNoReturn ==
    /\ Live
    /\ bgpc = "check"
    /\ \E c \in Closers :
        /\ clpc[c] = "sending"
        /\ clpc' = [clpc EXCEPT ![c] = "returned"]
    /\ bgpc' = "wait"
    /\ UNCHANGED <<npc, content, file, resp, stw, update, updateClosed,
                   closeClosed, gpc, gb, raced, fetchAfterClose, burstVars>>

\* CheckClose with case <-c.close also in the first select.
CheckCloseInWait ==
    /\ Live
    /\ bgpc \in {"wait", "check"}
    /\ \E c \in Closers :
        /\ clpc[c] = "sending"
        /\ clpc' = [clpc EXCEPT ![c] = "returned"]
    /\ bgpc' = "close_update"
    /\ UNCHANGED <<npc, content, file, resp, stw, update, updateClosed,
                   closeClosed, gpc, gb, raced, fetchAfterClose, burstVars>>

\* The second select: case <-c.close, taken when a Close is sending.
CheckClose ==
    /\ Live
    /\ bgpc = "check"
    /\ \E c \in Closers :
        /\ clpc[c] = "sending"
        /\ clpc' = [clpc EXCEPT ![c] = "returned"]
    /\ bgpc' = "close_update"
    /\ UNCHANGED <<npc, content, file, resp, stw, update, updateClosed,
                   closeClosed, gpc, gb, raced, fetchAfterClose, burstVars>>

\* CheckDefault leaving the loop instead of repeating it.
CheckDefaultStop ==
    /\ Live
    /\ bgpc = "check"
    /\ ~CloseWaiting
    /\ bgpc' = "done"
    /\ resp' = NoResp
    /\ UNCHANGED <<npc, content, file, stw, update, updateClosed,
                   closeClosed, gpc, gb, raced, clpc, fetchAfterClose,
                   burstVars>>

\* CheckDefault looping straight into the next fetch, the first select
\* skipped.
CheckDefaultNoWait ==
    /\ Live
    /\ bgpc = "check"
    /\ ~CloseWaiting
    /\ bgpc' = "fetch"
    /\ resp' = NoResp
    /\ UNCHANGED <<npc, content, file, stw, update, updateClosed,
                   closeClosed, gpc, gb, raced, clpc, fetchAfterClose,
                   burstVars>>

\* The second select: default.  b and e go out of scope.
CheckDefault ==
    /\ Live
    /\ bgpc = "check"
    /\ ~CloseWaiting
    /\ bgpc' = "wait"
    /\ resp' = NoResp
    /\ UNCHANGED <<npc, content, file, stw, update, updateClosed,
                   closeClosed, gpc, gb, raced, clpc, fetchAfterClose,
                   burstVars>>

\* close(c.update)
CloseUpdate ==
    /\ Live
    /\ bgpc = "close_update"
    /\ updateClosed' = TRUE
    /\ bgpc' = "close_close"
    /\ UNCHANGED <<npc, content, file, resp, stw, update, closeClosed, gpc,
                   gb, raced, clpc, fetchAfterClose, burstVars>>

\* close(c.close); return.  A send blocked on the channel panics.
CloseClose ==
    /\ Live
    /\ bgpc = "close_close"
    /\ closeClosed' = TRUE
    /\ clpc' = [c \in Closers |->
                   IF clpc[c] = "sending" THEN "panicked" ELSE clpc[c]]
    /\ bgpc' = "done"
    /\ UNCHANGED <<npc, content, file, resp, stw, update, updateClosed,
                   gpc, gb, raced, fetchAfterClose, burstVars>>

\* ---------------------------------------------------------------------- Get
\* A store to c.content is half done.
StoreInProgress == bgpc = "store" /\ stw # Words

\* b := c.content: the load of the header's ptr word.
GetLoadPtr(g) ==
    /\ Live
    /\ gpc[g] = "idle"
    /\ gpc' = [gpc EXCEPT ![g] = "loaded_ptr"]
    /\ gb' = [gb EXCEPT ![g].ptr = content.ptr]
    /\ raced' = [raced EXCEPT ![g] = StoreInProgress]
    /\ UNCHANGED <<npc, content, file, resp, bgpc, stw, update,
                   updateClosed, closeClosed, clpc, fetchAfterClose,
                   burstVars>>

\* b := c.content: the load of the header's len word.
GetLoadLen(g) ==
    /\ Live
    /\ gpc[g] = "loaded_ptr"
    /\ gpc' = [gpc EXCEPT ![g] = "select"]
    /\ gb' = [gb EXCEPT ![g].len = content.len]
    /\ raced' = [raced EXCEPT ![g] = FALSE]
    /\ UNCHANGED <<npc, content, file, resp, bgpc, stw, update,
                   updateClosed, closeClosed, clpc, fetchAfterClose,
                   burstVars>>

\* GetSelect with the default case missing: the send waits for room.
GetSelectBlocking(g) ==
    /\ Live
    /\ gpc[g] = "select"
    /\ updateClosed \/ Len(update) < UpdateCap
    /\ IF updateClosed
       THEN /\ gpc' = [gpc EXCEPT ![g] = "panicked"]
            /\ UNCHANGED <<update, gb>>
       ELSE /\ gpc' = [gpc EXCEPT ![g] = "idle"]
            /\ update' = Append(update, 1)
            /\ gb' = [gb EXCEPT ![g] = Slice(nil)]
    /\ burstLate' = (burstLate \/ (burst = "on" /\ burstWakes >= 2))
    /\ burstGets' = IF burst = "on" /\ ~burstLate' THEN Inc(burstGets, 3)
                    ELSE burstGets
    /\ UNCHANGED <<npc, content, file, resp, bgpc, stw, updateClosed,
                   closeClosed, raced, clpc, fetchAfterClose, burst,
                   burstWakes, burstReq>>

\* select { case c.update <- 1: default: }; return b
\* A send on a closed channel panics.
GetSelect(g) ==
    /\ Live
    /\ gpc[g] = "select"
    /\ IF updateClosed
       THEN /\ gpc' = [gpc EXCEPT ![g] = "panicked"]
            /\ UNCHANGED <<update, gb>>
       ELSE /\ gpc' = [gpc EXCEPT ![g] = "idle"]
            /\ update' = IF Len(update) < UpdateCap
                         THEN Append(update, 1) ELSE update
            /\ gb' = [gb EXCEPT ![g] = Slice(nil)]
    /\ burstLate' = (burstLate \/ (burst = "on" /\ burstWakes >= 2))
    /\ burstGets' = IF burst = "on" /\ ~burstLate' THEN Inc(burstGets, 3)
                    ELSE burstGets
    /\ UNCHANGED <<npc, content, file, resp, bgpc, stw, updateClosed,
                   closeClosed, raced, clpc, fetchAfterClose, burst,
                   burstWakes, burstReq>>

\* -------------------------------------------------------------------- Close
\* c.close <- 1: blocks until the goroutine receives; panics when the
\* channel is closed.
CloseCall(c) ==
    /\ Live
    /\ clpc[c] = "idle"
    /\ clpc' = [clpc EXCEPT ![c] = IF closeClosed THEN "panicked"
                                   ELSE "sending"]
    /\ UNCHANGED <<npc, content, file, resp, bgpc, stw, update,
                   updateClosed, closeClosed, gpc, gb, raced,
                   fetchAfterClose, burstVars>>

\* ----------------------------------------------------------- burst observer
\* Starts the observation of a burst of Get calls at a moment when a refresh
\* request is pending.  The burst is the Get calls whose select runs before
\* the goroutine's second wake-up after this moment, that is within one
\* iteration of the refresh loop.
BurstBegin ==
    /\ Live
    /\ burst = "off"
    /\ Len(update) = 1
    /\ burst' = "on"
    /\ UNCHANGED <<npc, content, file, resp, bgpc, stw, update, updateClosed,
                   closeClosed, gpc, gb, raced, clpc, fetchAfterClose,
                   burstWakes, burstReq, burstGets, burstLate>>

\* ------------------------------------------------------------ specification
Background ==
    \/ WakeTick
    \/ WakeUpdate
    \/ FetchDone
    \/ \E w \in Words : StoreWord(w)
    \/ Write
    \/ CheckClose
    \/ CheckDefault
    \/ CloseUpdate
    \/ CloseClose

Next ==
    \/ New
    \/ Background
    \/ \E g \in Getters : GetLoadPtr(g)
    \/ \E g \in Getters : GetLoadLen(g)
    \/ \E g \in Getters : GetSelect(g)
    \/ \E c \in Closers : CloseCall(c)

Spec == Init /\ [][Next]_vars

\* ------------------------------------------------------------------ claims
\* What section 6 of the specification calls an accepted response: no
\* transport error, status 200, body read fully.
FetchSucceeded(r) ==
    r.err = NoErr /\ r.status = StatusOK /\ r.readErr = NoErr

\* The listed failures: transport error, timeout, non-200 status.
FetchFailedAsListed(r) ==
    r # NoResp /\ (r.err # NoErr \/ r.status # StatusOK)

\* C1: when New returns or panics, a successful bootstrap fetch made the
\* fetched bytes the snapshot, and a fetch that failed by transport error,
\* timeout or non-200 status with a readable fallback file made New succeed
\* with the file's bytes as the snapshot.
C1_BootstrapPolicy ==
    [][(npc = "new" /\ npc' # "new") =>
        /\ FetchSucceeded(resp') =>
              (npc' = "ready" /\ content' = Slice(resp'.body))
        /\ (FetchFailedAsListed(resp') /\ file.readable) =>
              (npc' = "ready" /\ content' = Slice(file.data))]_vars

\* C2: within an iteration whose fetch failed by transport error, timeout or
\* non-200 status, no step changes the snapshot or the fallback file.
C2_StaleOnFailure ==
    [][(bgpc \in {"store", "write", "check"} /\ FetchFailedAsListed(resp)) =>
        (content' = content /\ file' = file)]_vars

\* C3: once a Close call has been accepted by the goroutine, no other Close
\* call panics.
C3_IdempotentShutdown ==
    (\E c \in Closers : clpc[c] = "returned") =>
        (\A d \in Closers : clpc[d] # "panicked")

\* C4: the header a Get has loaded and is about to return is the header of
\* one byte string, never the ptr of one value with the len of another.
C4_NoTornReads ==
    \A g \in Getters : gpc[g] = "select" => gb[g] = Slice(gb[g].ptr)

\* The goroutine has not accepted a Close.
BeforeShutdown == bgpc \in {"wait", "fetch", "store", "write", "check"}

C6_CoalescedTrigger ==
    /\ [](Len(update) \in {0, 1})
    /\ [](\A g \in Getters :
            (Live /\ gpc[g] = "select" /\ Len(update) = 1) =>
                ENABLED GetSelect(g))
    /\ [][\A g \in Getters :
            (gpc[g] = "select" /\ gpc'[g] # "select" /\ Len(update) = 1) =>
                update' = update]_vars

\* Both callers are at their select while a request is pending.
C6_Witness ==
    /\ Len(update) = 1
    /\ \A g \in Getters : gpc[g] = "select"

\* The cache in service, no Close called, with a burst observed.
BurstNext ==
    \/ New
    \/ WakeTick
    \/ WakeUpdate
    \/ FetchDone
    \/ \E w \in Words : StoreWord(w)
    \/ Write
    \/ CheckDefault
    \/ \E g \in Getters : GetLoadPtr(g)
    \/ \E g \in Getters : GetLoadLen(g)
    \/ \E g \in Getters : GetSelect(g)
    \/ BurstBegin

BurstSpec == Init /\ [][BurstNext]_vars

\* C7: from a moment when a refresh request is pending, however many Get
\* calls follow in a burst, the goroutine is woken by a refresh request at
\* most twice: once for the request that was pending and once more.
C7_BurstBound ==
    (burst = "on" /\ ~burstLate) => burstReq <= 2

\* Three or more Gets ran in the burst and the goroutine has started the
\* second request-driven fetch.
C7_Witness ==
    /\ burst = "on" /\ ~burstLate
    /\ burstGets >= 3
    /\ burstReq = 2
    /\ bgpc = "fetch"

\* Some Close call has returned.
CloseReturned == \E c \in Closers : clpc[c] = "returned"

\* This step is the goroutine's receive of a Close signal.
CloseAccepted == \E c \in Closers : clpc[c] = "sending" /\ clpc'[c] = "returned"

\* C8: once a Close call has returned, no step starts a fetch attempt or
\* changes the snapshot or the fallback file.
C8_ShutdownStops ==
    [][CloseReturned =>
        /\ ~(bgpc # "fetch" /\ bgpc' = "fetch")
        /\ content' = content
        /\ file' = file]_vars

\* A Close has returned and the goroutine has exited.
C8_Witness ==
    CloseReturned /\ bgpc = "done" /\ Live

\* C9: a Close signal is received only at the check after a completed fetch
\* attempt, whose bytes, if it succeeded, are by then the whole snapshot; a
\* fetch in flight is left only by its completion; and while a Close call
\* waits to deliver its signal the goroutine starts at most one fetch
\* attempt.
C9_CooperativeShutdown ==
    /\ [][CloseAccepted =>
            /\ bgpc = "check" /\ resp # NoResp /\ stw = {}
            /\ e = NoErr => content = Slice(b)]_vars
    /\ [][bgpc = "fetch" => bgpc' \in {"fetch", "store", "check"}]_vars
    /\ [](fetchAfterClose <= 1)

\* A Close waited through one fetch, which succeeded, and was then accepted.
C9_Witness ==
    /\ CloseReturned
    /\ fetchAfterClose = 1
    /\ b \in Bodies /\ content = Slice(b)

\* A single Close call: only caller 1 calls Close, while caller 1 of Get
\* calls Get as it likes.  The goroutine is
\* scheduled fairly, which includes that the ticker keeps firing (WakeTick)
\* and that every httpGet returns (FetchDone, bounded by loadTimeout).
\* Nothing is assumed of the Get callers.
LiveNext ==
    \/ New
    \/ Background
    \/ GetLoadPtr(1)
    \/ GetLoadLen(1)
    \/ GetSelect(1)
    \/ CloseCall(1)

LiveSpec == Init /\ [][LiveNext]_vars /\ WF_vars(Background)

\* C10: a single Close call that has begun its send eventually returns, and
\* from then on the goroutine eventually ends: it returns, unless the
\* process ends first by a panic.
C10_CloseTerminates ==
    /\ (clpc[1] = "sending") ~> (clpc[1] = "returned")
    /\ (clpc[1] = "returned") ~> (bgpc = "done" \/ Crashed)

\* The Close call has returned and the goroutine has returned, with no Get
\* request ever pending.
C10_Witness ==
    /\ clpc[1] = "returned" /\ bgpc = "done" /\ Live
    /\ update = <<>>

\* Callers that keep to the lifecycle: no Get is invoked once a Close call
\* has returned.  A Get invoked earlier runs on.
GetCallBeforeClose(g) ==
    /\ ~CloseReturned
    /\ GetLoadPtr(g)

LifecycleNext ==
    \/ New
    \/ Background
    \/ \E g \in Getters : GetCallBeforeClose(g)
    \/ \E g \in Getters : GetLoadLen(g)
    \/ \E g \in Getters : GetSelect(g)
    \/ \E c \in Closers : CloseCall(c)

LifecycleSpec == Init /\ [][LifecycleNext]_vars

\* C11: a Get invoked before a Close call returned never panics.
C11_GetSafeAgainstClose ==
    \A g \in Getters : gpc[g] # "panicked"

\* C12: 200 bodies being non-empty and the fallback file being readable and
\* non-empty, once New has returned the snapshot, whenever no store to it is
\* half done, and every header a Get is about to return are those of a
\* non-empty byte string.
C12_SnapshotNeverEmpty ==
    (file.readable /\ file.data # nil) =>
        /\ (npc = "ready" /\ ~StoreInProgress) =>
                (content.ptr # nil /\ content.len > 0)
        /\ \A g \in Getters :
                gpc[g] = "select" => (gb[g].ptr # nil /\ gb[g].len > 0)

\* C13: when the bootstrap fetch is not accepted and the fallback file cannot
\* be read, New does not panic and starts no goroutine.
C13_BootstrapFailureReported ==
    [][(npc = "new" /\ npc' # "new"
            /\ ~FetchSucceeded(resp') /\ ~file.readable) =>
        (npc' # "panic" /\ bgpc' = "none")]_vars

\* C14: in an iteration whose fetch was accepted with bytes b, the snapshot
\* is b before the file is written and stays b to the end of the iteration;
\* after construction the snapshot changes only in the store of such an
\* iteration, so it stays b until the next accepted fetch; a Get whose load
\* no store overlaps returns the snapshot; and the file as the write left it
\* is not changed again in the iteration.
C14_RefreshVisibility ==
    /\ []((bgpc \in {"write", "check"} /\ FetchSucceeded(resp)) =>
            content = Slice(resp.body))
    /\ [][(npc = "ready" /\ content' # content) =>
            (bgpc = "store" /\ FetchSucceeded(resp))]_vars
    /\ [][\A g \in Getters :
            (gpc[g] = "loaded_ptr" /\ gpc'[g] = "select" /\ ~raced[g]) =>
                gb'[g] = content]_vars
    /\ [][bgpc = "check" => file' = file]_vars

\* C15: for every response received, httpGet returns the nil error exactly
\* when the response is accepted (no transport error, status 200, body read
\* fully), and then returns the body.
C15_FetchAcceptanceRule ==
    resp # NoResp =>
        /\ httpGet(resp)[2] = NoErr <=> FetchSucceeded(resp)
        /\ FetchSucceeded(resp) => httpGet(resp)[1] = resp.body

\* C16: the write of the fallback file, whatever it leaves in the file, does
\* not change the snapshot and is followed by the shutdown check; at the
\* check the snapshot is the accepted bytes whether or not the file holds
\* them, and the check can be taken.
C16_PersistFailureNonFatal ==
    /\ [][(bgpc = "write" /\ bgpc' # "write") =>
            (bgpc' = "check" /\ content' = content)]_vars
    /\ []((bgpc = "check" /\ FetchSucceeded(resp)) =>
            content = Slice(resp.body))
    /\ []((Live /\ bgpc = "check") => ENABLED (CheckClose \/ CheckDefault))

\* The goroutine is at the check after an accepted fetch whose write failed:
\* the snapshot is the fetched bytes, the file is not.
C16_Witness ==
    /\ bgpc = "check" /\ FetchSucceeded(resp)
    /\ content = Slice(resp.body)
    /\ file # File(resp.body)

\* C17: a fetch attempt starts only from the first select, by a step that
\* either leaves the pending requests as they are (a tick) or removes exactly
\* one (a request); no other step removes a request; and, observed from a
\* moment when a request is pending and while no Get runs its select, the
\* request is either still pending or was consumed by exactly one wake-up.
C17_FetchesAreDriven ==
    /\ [][(bgpc # "fetch" /\ bgpc' = "fetch") =>
            /\ bgpc = "wait"
            /\ \/ update' = update
               \/ update # <<>> /\ update' = Tail(update)]_vars
    /\ [][Len(update') < Len(update) =>
            (bgpc = "wait" /\ bgpc' = "fetch")]_vars
    /\ []((burst = "on" /\ ~burstLate /\ burstGets = 0) =>
            Len(update) + burstReq = 1)

\* A tick has started a fetch and left the pending request in place.
C17_Witness ==
    /\ burst = "on" /\ burstGets = 0
    /\ burstWakes = 1 /\ burstReq = 0
    /\ bgpc = "fetch" /\ Len(update) = 1

\* C18: the snapshot is changed only by New, which leaves the file as it is,
\* and by the store of an iteration whose fetch was accepted; the file is
\* changed only by the write of such an iteration.  No step of Get or Close
\* changes either.
C18_SingleWriterFrame ==
    [][(content' # content \/ file' # file) =>
        \/ npc = "new" /\ file' = file
        \/ /\ FetchSucceeded(resp)
           /\ \/ bgpc = "store" /\ file' = file
              \/ bgpc = "write" /\ content' = content]_vars

\* One Get caller and one Close caller, the goroutine scheduled fairly (every
\* httpGet returns), and an observer that marks a moment when a refresh
\* request is pending, as it is whenever a Get has just returned.
RequestNext ==
    \/ LiveNext
    \/ BurstBegin

RequestSpec == Init /\ [][RequestNext]_vars /\ WF_vars(Background)

\* C19: from any moment when a refresh request is pending, the goroutine
\* eventually starts a fetch attempt, unless a Close signal is accepted
\* first.
C19_RequestNeverLost ==
    (burst = "on") ~> (burstWakes >= 1 \/ CloseReturned)

\* The request observed pending has been consumed by a wake-up and its fetch
\* is in flight, with no Close accepted.
C19_Witness ==
    /\ burst = "on" /\ burstReq = 1
    /\ bgpc = "fetch" /\ update = <<>>
    /\ ~CloseReturned

====
